---- MODULE Spec2Model ----
(***************************************************************************)
(* A model of examples/transformers_tagger.py (the PyTorch <-> Thinc       *)
(* output converter convert_transformer_outputs with its backprop closure, *)
(* and the gradient-accumulating training loop of main) and of the         *)
(* Softmax_v2 scenario of thinc/tests/layers/test_softmax.py.              *)
(*                                                                         *)
(* Python indices are 0-based and TLA+ sequences 1-based: a view's         *)
(* item/start/stop fields hold Python indices, and Rows/element accesses   *)
(* add 1 when they index a sequence.                                       *)
(***************************************************************************)
EXTENDS Integers, Sequences, FiniteSets, TLC

\* ------------------------------------------------------------------ bounds
\* Largest batch size N, padded sequence length T and feature width F drawn
\* for the tensor handed to convert_transformer_outputs.
MaxN == 2
MaxT == 4
MaxF == 2
\* Largest number of inputs and of outputs of the Softmax layer, largest
\* weight and largest gradient entry.
MaxDim == 2
MaxW == 1
MaxG == 1
\* Largest n_epoch and largest number of minibatches of an epoch in main.
MaxEpoch == 2
MaxBatches == 9

VARIABLES
    pc,             \* "called" | "returned" | "mutated" | "failed" | "backpropped" | "reconverted"
    torch_tokvecs,  \* storage of torch_outputs[0]: N items x T rows x F values
    input_len,      \* layer_inputs.input_len
    other_tokvecs,  \* a second tensor that agrees with torch_tokvecs below each length
    X0,             \* the values of torch_tokvecs when the converter was called
    tokvecs,        \* the returned list, each array a view on torch_tokvecs
    other_vecs,     \* the list returned for other_tokvecs, views on other_tokvecs
    err,            \* the exception that ended the last call, or "none"
    written,        \* <<>> or <<[k, r, c, v]>>: the write made through output k
    d_tokvecs,      \* the gradient list handed to backprop
    d_inputs,       \* <<>> or <<ArgsKwargs>> returned by backprop
    re_tokvecs,     \* the converter applied again to the gradient tensor
    \* Softmax_v2 (test_unnormalized_softmax_backprop)
    sm_pc,          \* "idle" | "initialized" | "forwarded" | "raised" | "done"
    sm_normalize,   \* attrs["softmax_normalize"]
    sm_W,           \* the weights, nO rows of nI values
    sm_is_train,    \* is_train of the last forward call
    sm_callback,    \* the closure the last forward call returned
    sm_dY,          \* the gradient the callback was called with
    sm_dX,          \* the gradient the callback returned
    sm_err,         \* the exception the callback raised, or "none"
    \* main's training loop
    tr_pc,          \* "idle" | "loop" | "batches" | "check" | "sched" | "done"
    n_epoch,        \* cfg["n_epoch"]
    n_batches,      \* how many batches minibatch(train_data, batch_size) yields
    epoch,          \* the epochs completed
    batch_idx,      \* the batches of this epoch already taken
    batch_count,    \* the local batch_count
    pending,        \* batches back-propagated since the last finish_update
    updates,        \* calls of model.finish_update
    sched_steps     \* calls of optimizer.step_schedules

bridgeVars == <<pc, torch_tokvecs, input_len, other_tokvecs, X0, tokvecs,
                other_vecs, err, written, d_tokvecs, d_inputs, re_tokvecs>>

softmaxVars == <<sm_pc, sm_normalize, sm_W, sm_is_train, sm_callback, sm_dY,
                 sm_dX, sm_err>>

trainVars == <<tr_pc, n_epoch, n_batches, epoch, batch_idx, batch_count,
               pending, updates, sched_steps>>

vars == <<bridgeVars, softmaxVars, trainVars>>

\* ------------------------------------------------------- Python / numpy
Clamp(x, lo, hi) == IF x < lo THEN lo ELSE IF x > hi THEN hi ELSE x

\* One bound of slice(start, stop).indices(n) for step 1: a negative index
\* counts from the end, and the result is clipped to 0..n.
SliceIndex(n, k) == Clamp(IF k < 0 THEN k + n ELSE k, 0, n)

\* <<lo, hi>> of a[start:stop] on n rows; an empty slice has hi = lo.
SliceBounds(n, start, stop) ==
    LET lo == SliceIndex(n, start)
        hi == SliceIndex(n, stop)
    IN  <<lo, IF hi < lo THEN lo ELSE hi>>

\* numpy basic slicing of a view along the rows: again a view, on the same
\* storage, of rows start+lo .. start+hi-1 of the same item.
SliceRows(view, start, stop) ==
    LET b == SliceBounds(view.stop - view.start, start, stop)
    IN  [item |-> view.item, start |-> view.start + b[1], stop |-> view.start + b[2]]

NRows(view) == view.stop - view.start

\* The rows a view shows of a storage.
Rows(data, view) == [k \in 1..NRows(view) |-> data[view.item + 1][view.start + k]]

ShapeOf(data) == <<Len(data), Len(data[1]), Len(data[1][1])>>

Max(S) == CHOOSE x \in S : \A y \in S : y <= x

ZeroRow(w) == [c \in 1..w |-> 0]

\* ------------------------------------------------ helpers of thinc.api
\* torch2xp / xp2torch re-wrap a tensor's memory as an array of the other
\* library (numpy() on the CPU, DLPack on the GPU): same storage, same values.
torch2xp(tensor) == tensor

xp2torch(array) == array

\* Ops.unpad(padded, lengths): for i, length in enumerate(lengths) it takes
\* padded[i, :length], a view. Item i >= N does not exist (IndexError); a
\* length above T is clipped by the slice.
unpad(padded, lengths) ==
    LET shape == ShapeOf(padded)
    IN  IF Len(lengths) > shape[1]
        THEN [err |-> "IndexError", out |-> <<>>]
        ELSE [err |-> "none",
              out |-> [i \in 1..Len(lengths) |->
                         SliceRows([item |-> i - 1, start |-> 0, stop |-> shape[2]],
                                   0, lengths[i])]]

\* Ops.alloc_f2d(n, w): a zero-filled n x w array.
alloc_f2d(n, w) == [shape |-> <<n, w>>, data |-> [r \in 1..n |-> ZeroRow(w)]]

RECURSIVE ConcatRows(_)
ConcatRows(arrs) ==
    IF arrs = <<>> THEN <<>> ELSE arrs[1].data \o ConcatRows(Tail(arrs))

\* numpy.vstack(tup) of 2d arrays: the rows of each in turn; ValueError when
\* the widths differ (also for an array of no rows).
vstack(tup) ==
    IF \E k \in 1..Len(tup) : tup[k].shape[2] # tup[1].shape[2]
    THEN [err |-> "ValueError", val |-> alloc_f2d(0, 0)]
    ELSE LET data == ConcatRows(tup)
         IN  [err |-> "none", val |-> [shape |-> <<Len(data), tup[1].shape[2]>>, data |-> data]]

NoTensor == [shape |-> <<0, 0, 0>>, data |-> <<>>]

\* Ops.pad(seqs): a zero-allocated (len(seqs), longest, width) array with each
\* sequence copied to the front of its item; ValueError for an empty list or
\* for sequences that differ on the other dimension.
pad(seqs) ==
    IF seqs = <<>> \/ \E k \in 1..Len(seqs) : seqs[k].shape[2] # seqs[1].shape[2]
    THEN [err |-> "ValueError", val |-> NoTensor]
    ELSE LET length == Max({seqs[k].shape[1] : k \in 1..Len(seqs)})
             w == seqs[1].shape[2]
         IN  [err |-> "none",
              val |-> [shape |-> <<Len(seqs), length, w>>,
                       data |-> [k \in 1..Len(seqs) |->
                                  [r \in 1..length |->
                                     IF r <= seqs[k].shape[1] THEN seqs[k].data[r]
                                     ELSE ZeroRow(w)]]]]

\* ------------------------------------------- convert_transformer_outputs
\* arr[1:] : a slice that forgets the EOS marker.
TrimMarkers_KeepEos(arr) == SliceRows(arr, 1, NRows(arr))

\* arr[:-1] : a slice that forgets the BOS marker.
TrimMarkers_KeepBos(arr) == SliceRows(arr, 0, -1)

\* arr[1:-1]
TrimMarkers(arr) == SliceRows(arr, 1, -1)

\* The converter with the length validation it does not have.
convert_transformer_outputs_Validating(torch_data, lengths) ==
    IF Len(lengths) # ShapeOf(torch_data)[1] \/ \E i \in 1..Len(lengths) : lengths[i] < 2
    THEN [err |-> "InvalidLength", out |-> <<>>]
    ELSE [err |-> "none", out |-> [i \in 1..Len(lengths) |-> TrimMarkers(unpad(torch_data, lengths).out[i])]]

\* The converter slicing the padded items without unpadding them.
convert_transformer_outputs_NoUnpad(torch_data, lengths) ==
    LET u == unpad(torch2xp(torch_data), [i \in 1..Len(lengths) |-> ShapeOf(torch_data)[2]])
    IN  IF u.err # "none" THEN [err |-> u.err, out |-> <<>>]
        ELSE [err |-> "none", out |-> [i \in 1..Len(u.out) |-> TrimMarkers(u.out[i])]]

\* The body of convert_transformer_outputs up to its return: unpad the
\* tensor by input_len, then drop the first and the last row of each array.
convert_transformer_outputs(torch_data, lengths) ==
    LET u == unpad(torch2xp(torch_data), lengths)
    IN  IF u.err # "none" THEN [err |-> u.err, out |-> <<>>]
        ELSE [err |-> "none", out |-> [i \in 1..Len(u.out) |-> TrimMarkers(u.out[i])]]

\* arr with its rows cut or zero-extended to the width of row.
Coerce(row, arr) ==
    [shape |-> <<arr.shape[1], row.shape[2]>>,
     data |-> [r \in 1..arr.shape[1] |->
                 [c \in 1..row.shape[2] |-> IF c <= arr.shape[2] THEN arr.data[r][c] ELSE 0]]]

\* vstack((arr, row, row)): both markers restored after the content.
Restore_MarkersAtEnd(row, arr) == vstack(<<arr, row, row>>)

\* vstack((row, row, arr)): both markers restored before the content.
Restore_MarkersFirst(row, arr) == vstack(<<row, row, arr>>)

\* vstack((row, arr)): the EOS marker is not restored.
Restore_OneMarker(row, arr) == vstack(<<row, arr>>)

\* The array is first forced to the width of row.
Restore_Coerced(row, arr) == vstack(<<row, Coerce(row, arr), row>>)

\* model.ops.xp.vstack((row, arr, row))
Restore(row, arr) == vstack(<<row, arr, row>>)

\* backprop(d_tokvecs): d_tokvecs[0] of an empty list is an IndexError; the
\* zero row has the width of the first array; the stacked arrays are padded.
backprop(grads) ==
    IF grads = <<>> THEN [err |-> "IndexError", val |-> NoTensor]
    ELSE LET row == alloc_f2d(1, grads[1].shape[2])
             stacked == [k \in 1..Len(grads) |-> Restore(row, grads[k])]
         IN  IF \E k \in 1..Len(grads) : stacked[k].err # "none"
             THEN [err |-> "ValueError", val |-> NoTensor]
             ELSE LET p == pad([k \in 1..Len(grads) |-> stacked[k].val])
                  IN  [err |-> p.err, val |-> xp2torch(p.val)]

\* The lengths the spec pairs with the gradient tensor: L_i + 2 per item.
RestoredLengths(grads) == [k \in 1..Len(grads) |-> grads[k].shape[1] + 2]

\* ---------------------------------------------------------------- inputs
\* A tensor whose every entry is different and not zero: entry (i, r, c),
\* counted from 1, is i*100 + r*10 + c, so an entry tells where it came from.
Labelled(n, t, f) ==
    [i \in 1..n |-> [r \in 1..t |-> [c \in 1..f |-> i * 100 + r * 10 + c]]]

\* Values the padding region of the second tensor is filled with.
Fillers == {0, -1}

\* data with every row at or beyond its item's length filled with fill.
Refill(data, lengths, fill) ==
    [i \in 1..Len(data) |->
       [r \in 1..Len(data[i]) |->
          IF i <= Len(lengths) /\ r > lengths[i]
          THEN [c \in 1..Len(data[i][r]) |-> fill]
          ELSE data[i][r]]]

\* Values written through an output array (no entry of a tensor has them).
WriteValues == {-5}

\* Gradient arrays shaped like the outputs, item dev (if any) of width w
\* instead of f. "echo" feeds the outputs' own values back, "fresh" gives
\* entry (k, r, c) the value -(k*100 + r*10 + c).
Grads(data, views, kind, f, dev, w) ==
    [k \in 1..Len(views) |->
       LET width == IF k = dev THEN w ELSE f
       IN  [shape |-> <<NRows(views[k]), width>>,
            data |-> [r \in 1..NRows(views[k]) |->
                        [c \in 1..width |->
                           IF kind = "echo" /\ c <= f
                           THEN Rows(data, views[k])[r][c]
                           ELSE 0 - (k * 100 + r * 10 + c)]]]]

NoResult == [err |-> "none", out |-> <<>>]

\* The parts of the program a specification does not run.
BridgeIdle ==
    /\ pc = "idle"
    /\ torch_tokvecs = <<>>
    /\ X0 = <<>>
    /\ input_len = <<>>
    /\ other_tokvecs = <<>>
    /\ tokvecs = <<>>
    /\ other_vecs = <<>>
    /\ err = "none"
    /\ written = <<>>
    /\ d_tokvecs = <<>>
    /\ d_inputs = <<>>
    /\ re_tokvecs = NoResult

SoftmaxIdle ==
    /\ sm_pc = "idle"
    /\ sm_normalize = FALSE
    /\ sm_W = <<>>
    /\ sm_is_train = FALSE
    /\ sm_callback = "none"
    /\ sm_dY = <<>>
    /\ sm_dX = <<>>
    /\ sm_err = "none"

TrainIdle ==
    /\ tr_pc = "idle"
    /\ n_epoch = 0
    /\ n_batches = 0
    /\ epoch = 0
    /\ batch_idx = 0
    /\ batch_count = 0
    /\ pending = 0
    /\ updates = 0
    /\ sched_steps = 0

Called(data, lengths, fill) ==
    /\ pc = "called"
    /\ torch_tokvecs = data
    /\ X0 = data
    /\ input_len = lengths
    /\ other_tokvecs = Refill(data, lengths, fill)
    /\ tokvecs = <<>>
    /\ other_vecs = <<>>
    /\ err = "none"
    /\ written = <<>>
    /\ d_tokvecs = <<>>
    /\ d_inputs = <<>>
    /\ re_tokvecs = NoResult

\* The PyTorch wrapper has run the transformer and calls the converter: a
\* tensor (N, T, F) and input_len of N - 1, N or N + 1 lengths in 0..T; and
\* the tensor (2, 5, 3) with lengths [5, 4].
Init ==
    /\ \/ \E n \in 1..MaxN, t \in 1..MaxT, f \in 1..MaxF, fill \in Fillers :
            \E m \in {n - 1, n, n + 1} :
              \E lengths \in [1..m -> 0..t] :
                Called(Labelled(n, t, f), lengths, fill)
       \/ \E fill \in Fillers : Called(Labelled(2, 5, 3), <<5, 4>>, fill)
    /\ SoftmaxIdle
    /\ TrainIdle

\* ---------------------------------------------------------------- actions
\* convert_transformer_outputs(model, inputs_outputs, is_train) runs to its
\* return (or to the exception that ends it), on torch_tokvecs and, as a
\* second call with the same input_len, on other_tokvecs.
Forward ==
    /\ pc = "called"
    /\ LET res == convert_transformer_outputs(torch_tokvecs, input_len)
       IN  /\ pc' = IF res.err = "none" THEN "returned" ELSE "forward_failed"
           /\ tokvecs' = res.out
           /\ other_vecs' = convert_transformer_outputs(other_tokvecs, input_len).out
           /\ err' = res.err
    /\ UNCHANGED <<torch_tokvecs, input_len, other_tokvecs, X0, written,
                   d_tokvecs, d_inputs, re_tokvecs>>
    /\ UNCHANGED <<softmaxVars, trainVars>>

\* The caller assigns tokvecs[k][r, c] = v: numpy writes through the view.
WriteOutput ==
    /\ pc = "returned"
    /\ \E k \in 1..Len(tokvecs) :
         \E r \in 1..NRows(tokvecs[k]), c \in 1..ShapeOf(torch_tokvecs)[3], v \in WriteValues :
           /\ torch_tokvecs' =
                [torch_tokvecs EXCEPT ![tokvecs[k].item + 1][tokvecs[k].start + r][c] = v]
           /\ written' = <<[k |-> k - 1, r |-> r - 1, c |-> c - 1, v |-> v]>>
    /\ pc' = "mutated"
    /\ UNCHANGED <<input_len, other_tokvecs, X0, tokvecs, other_vecs, err,
                   d_tokvecs, d_inputs, re_tokvecs>>
    /\ UNCHANGED <<softmaxVars, trainVars>>

\* The caller invokes the returned closure on a gradient list.
Backprop ==
    /\ pc = "returned"
    /\ \E kind \in {"echo", "fresh"}, dev \in 0..Len(tokvecs), w \in 1..MaxF :
         LET f == ShapeOf(torch_tokvecs)[3]
             grads == Grads(torch_tokvecs, tokvecs, kind, f, dev, w)
             res == backprop(grads)
         IN  /\ (dev = 0) <=> (w = f)
             /\ d_tokvecs' = grads
             /\ err' = res.err
             /\ IF res.err = "none"
                THEN /\ pc' = "backpropped"
                     /\ d_inputs' = <<[args |-> torch_tokvecs, grad_tensors |-> res.val]>>
                ELSE /\ pc' = "backprop_failed"
                     /\ d_inputs' = <<>>
    /\ UNCHANGED <<torch_tokvecs, input_len, other_tokvecs, X0, tokvecs,
                   other_vecs, written, re_tokvecs>>
    /\ UNCHANGED <<softmaxVars, trainVars>>

\* The converter is applied to the gradient tensor with the restored lengths.
Reconvert ==
    /\ pc = "backpropped"
    /\ re_tokvecs' = convert_transformer_outputs(d_inputs[1].grad_tensors.data,
                                                 RestoredLengths(d_tokvecs))
    /\ pc' = "reconverted"
    /\ UNCHANGED <<torch_tokvecs, input_len, other_tokvecs, X0, tokvecs,
                   other_vecs, err, written, d_tokvecs, d_inputs>>
    /\ UNCHANGED <<softmaxVars, trainVars>>

Next == Forward \/ WriteOutput \/ Backprop \/ Reconvert

Spec == Init /\ [][Next]_vars

\* ------------------------------------------------- the converter's claims
N == ShapeOf(X0)[1]
T == ShapeOf(X0)[2]
F == ShapeOf(X0)[3]

\* input_len has one length per item, each in 2..T.
ValidLengths ==
    /\ Len(input_len) = N
    /\ \A i \in 1..Len(input_len) : 2 <= input_len[i] /\ input_len[i] <= T

\* Rows 1 .. l-2 (Python indices) of item i of the tensor as it was passed.
MiddleRows(i, l) == [k \in 1..(IF l >= 2 THEN l - 2 ELSE 0) |-> X0[i][k + 1]]

ForwardDone == pc # "called"

BackpropDone == pc \in {"backpropped", "reconverted"}

GradTensor == d_inputs[1].grad_tensors

\* C1: with one length l_i in 2..T per item the forward conversion returns N
\* arrays, array i with exactly l_i - 2 rows, which are rows 1 .. l_i - 2 of
\* item i of the tensor in the same row and feature order.
C1_ForwardTrims ==
    (ForwardDone /\ ValidLengths) =>
        /\ pc # "forward_failed"
        /\ Len(tokvecs) = N
        /\ \A i \in 1..Len(tokvecs) :
             /\ NRows(tokvecs[i]) = input_len[i] - 2
             /\ Rows(X0, tokvecs[i]) = MiddleRows(i, input_len[i])

\* The tensor (2, 5, 3) with lengths [5, 4] gave arrays of 3 and of 2 rows.
C1_Witness ==
    /\ pc = "returned"
    /\ ShapeOf(X0) = <<2, 5, 3>>
    /\ input_len = <<5, 4>>
    /\ NRows(tokvecs[1]) = 3
    /\ NRows(tokvecs[2]) = 2

\* C2: backward (zero marker rows, pad) and then forward with the restored
\* lengths L_i + 2 gives back every gradient array's content; when the
\* gradients were the first forward's outputs, it gives those outputs back.
C2_RoundTrip ==
    (pc = "reconverted") =>
        /\ re_tokvecs.err = "none"
        /\ Len(re_tokvecs.out) = Len(d_tokvecs)
        /\ \A k \in 1..Len(re_tokvecs.out) :
             /\ Rows(GradTensor.data, re_tokvecs.out[k]) = d_tokvecs[k].data
             /\ (d_tokvecs[k].data = Rows(X0, tokvecs[k])
                   => Rows(GradTensor.data, re_tokvecs.out[k]) = Rows(X0, tokvecs[k]))

\* A round trip of the forward outputs themselves, one of them with a row.
C2_Witness ==
    /\ pc = "reconverted"
    /\ Len(d_tokvecs) = 2
    /\ \E k \in 1..Len(d_tokvecs) : d_tokvecs[k].shape[1] >= 1
    /\ \A k \in 1..Len(d_tokvecs) : d_tokvecs[k].data = Rows(X0, tokvecs[k])

\* C3: for gradient arrays of shapes (L_i, F) the gradient tensor has shape
\* (number of arrays, max L_i + 2, F); in item i, in the list's order, row 0
\* and row L_i + 1 are zero and rows 1 .. L_i are the gradient's rows.
C3_BackwardLayout ==
    BackpropDone =>
        LET g == GradTensor
            longest == Max({d_tokvecs[k].shape[1] : k \in 1..Len(d_tokvecs)})
            w == d_tokvecs[1].shape[2]
        IN  /\ g.shape = <<Len(d_tokvecs), longest + 2, w>>
            /\ Len(g.data) = Len(d_tokvecs)
            /\ \A k \in 1..Len(d_tokvecs) :
                 LET L == d_tokvecs[k].shape[1]
                 IN  /\ Len(g.data[k]) = longest + 2
                     /\ g.data[k][1] = ZeroRow(w)
                     /\ g.data[k][L + 2] = ZeroRow(w)
                     /\ \A r \in 1..L : g.data[k][r + 1] = d_tokvecs[k].data[r]

\* Two gradient arrays of different lengths were padded.
C3_Witness ==
    /\ pc = "backpropped"
    /\ Len(d_tokvecs) = 2
    /\ d_tokvecs[1].shape[1] < d_tokvecs[2].shape[1]
    /\ d_tokvecs[2].data # Rows(X0, tokvecs[2])

\* C4 as claimed: the forward conversion fails, returning nothing, whenever a
\* length is below 2 or input_len does not have N lengths.
C4_InvalidLengthRaised ==
    (ForwardDone /\ (Len(input_len) # N \/ \E i \in 1..Len(input_len) : input_len[i] < 2))
        => (pc = "forward_failed" /\ tokvecs = <<>>)

\* C4 as amended: the forward conversion validates nothing. It fails (with
\* an IndexError, returning nothing) exactly when input_len has more than N
\* lengths; otherwise it returns one array per length, array i with rows
\* 1 .. l_i - 2 of item i, which is no row when l_i < 2.
C4_NoLengthValidation ==
    ForwardDone =>
        /\ (pc = "forward_failed") <=> (Len(input_len) > N)
        /\ (pc = "forward_failed") => (err = "IndexError" /\ tokvecs = <<>>)
        /\ (Len(input_len) <= N) =>
             /\ Len(tokvecs) = Len(input_len)
             /\ \A i \in 1..Len(tokvecs) : Rows(X0, tokvecs[i]) = MiddleRows(i, input_len[i])

\* A call with N - 1 lengths, one of them below 2, returned.
C4_Witness ==
    /\ pc = "returned"
    /\ Len(input_len) = N - 1
    /\ \E i \in 1..Len(input_len) : input_len[i] < 2
    /\ Len(tokvecs) = N - 1

DifferingWidths ==
    \E j, k \in 1..Len(d_tokvecs) : d_tokvecs[j].shape[2] # d_tokvecs[k].shape[2]

\* C5: when two gradient arrays differ in feature width, whichever position
\* the deviating one has, backprop fails (numpy's ValueError) and produces no
\* gradient tensor.
C5_WidthMismatchFails ==
    (pc \in {"backpropped", "backprop_failed", "reconverted"} /\ DifferingWidths)
        => (pc = "backprop_failed" /\ err = "ValueError" /\ d_inputs = <<>>)

\* backprop failed on a list whose first array has the deviating width.
C5_Witness ==
    /\ pc = "backprop_failed"
    /\ Len(d_tokvecs) = 2
    /\ d_tokvecs[1].shape[2] # F
    /\ d_tokvecs[2].shape[2] = F

\* The two tensors agree on the first l_i rows of every item that has a length.
AgreeBelowLengths ==
    \A i \in 1..Len(input_len) :
        i <= N => \A r \in 1..T : r <= input_len[i] => other_tokvecs[i][r] = X0[i][r]

\* C6: two tensors of one shape that agree on the first l_i rows of every
\* item give, with the same lengths, identical lists of arrays.
C6_PaddingNonInterference ==
    (pc = "returned" /\ AgreeBelowLengths) =>
        /\ Len(other_vecs) = Len(tokvecs)
        /\ \A k \in 1..Len(tokvecs) :
             Rows(other_tokvecs, other_vecs[k]) = Rows(X0, tokvecs[k])

\* The tensors differ in their padding and an output has a row.
C6_Witness ==
    /\ pc = "returned"
    /\ other_tokvecs # X0
    /\ \E k \in 1..Len(tokvecs) : NRows(tokvecs[k]) >= 1

GradsMatchOutputs ==
    /\ Len(d_tokvecs) = Len(tokvecs)
    /\ \A k \in 1..Len(d_tokvecs) : d_tokvecs[k].shape = <<NRows(tokvecs[k]), F>>

RECURSIVE Dot(_, _, _)
\* sum over o = 1 .. n of dYrow[o] * W[o][i]
Dot(dYrow, W, i) ==
    IF dYrow = <<>> THEN 0
    ELSE dYrow[Len(dYrow)] * W[Len(dYrow)][i]
           + Dot(SubSeq(dYrow, 1, Len(dYrow) - 1), W, i)

\* model.ops.gemm(dY, W): (batch, nO) times (nO, nI).
gemm(dY, W) == [b \in 1..Len(dY) |-> [i \in 1..Len(W[1]) |-> Dot(dY[b], W, i)]]

\* The closure is the unsupported one whenever the outputs are unnormalized,
\* training or not.
Softmax_v2_forward_NoTrainBackprop(normalize, is_train) ==
    [normalized |-> normalize \/ is_train,
     callback |-> IF normalize THEN "backprop" ELSE "backprop_unnormalized"]

\* Softmax_v2's forward: the outputs are normalized, and the returned closure
\* is the real backprop, when normalize_outputs or is_train; otherwise the
\* closure is backprop_unnormalized.
Softmax_v2_forward(normalize, is_train) ==
    [normalized |-> normalize \/ is_train,
     callback |-> IF normalize \/ is_train THEN "backprop" ELSE "backprop_unnormalized"]

\* The closure called on dY: backprop_unnormalized raises ValueError
\* ("backprop is not supported ..."), backprop returns gemm(dY, W).
Softmax_v2_backprop(callback, dY, W) ==
    IF callback = "backprop_unnormalized"
    THEN [err |-> "ValueError", dX |-> <<>>]
    ELSE [err |-> "none", dX |-> gemm(dY, W)]

\* A batch of one gradient row whose nO entries all are g.
ConstantGrad(nO, g) == <<[o \in 1..nO |-> g]>>

\* model = Softmax_v2(normalize_outputs=...); model.initialize(inputs, outputs)
InitSoftmax ==
    /\ \E nO \in 1..MaxDim, nI \in 1..MaxDim :
         sm_W \in [1..nO -> [1..nI -> 0..MaxW]]
    /\ sm_normalize \in BOOLEAN
    /\ sm_pc = "initialized"
    /\ sm_is_train = FALSE
    /\ sm_callback = "none"
    /\ sm_dY = <<>>
    /\ sm_dX = <<>>
    /\ sm_err = "none"
    /\ BridgeIdle
    /\ TrainIdle

\* _, backprop = model(inputs, is_train=...)
SoftmaxForward ==
    /\ sm_pc \in {"initialized", "raised", "done"}
    /\ \E is_train \in BOOLEAN :
         /\ sm_is_train' = is_train
         /\ sm_callback' = Softmax_v2_forward(sm_normalize, is_train).callback
    /\ sm_pc' = "forwarded"
    /\ sm_err' = "none"
    /\ sm_dY' = <<>>
    /\ sm_dX' = <<>>
    /\ UNCHANGED <<sm_normalize, sm_W>>
    /\ UNCHANGED <<bridgeVars, trainVars>>

\* backprop(dY)
SoftmaxBackprop ==
    /\ sm_pc = "forwarded"
    /\ \E g \in 0..MaxG :
         LET dY == ConstantGrad(Len(sm_W), g)
             res == Softmax_v2_backprop(sm_callback, dY, sm_W)
         IN  /\ sm_dY' = dY
             /\ sm_dX' = res.dX
             /\ sm_err' = res.err
             /\ sm_pc' = IF res.err = "none" THEN "done" ELSE "raised"
    /\ UNCHANGED <<sm_normalize, sm_W, sm_is_train, sm_callback>>
    /\ UNCHANGED <<bridgeVars, trainVars>>

NextSoftmax == SoftmaxForward \/ SoftmaxBackprop

SpecSoftmax == InitSoftmax /\ [][NextSoftmax]_vars

AllZero(M) == \A b \in 1..Len(M) : \A i \in 1..Len(M[b]) : M[b][i] = 0

\* C8: for a layer with normalize_outputs = False, the closure of a forward
\* call with is_train = False raises ValueError when called; the closure of a
\* forward call with is_train = True does not fail and returns an all-zero
\* input gradient for an all-zero output gradient.
C8_UnnormalizedBackprop ==
    (sm_pc \in {"raised", "done"} /\ ~sm_normalize) =>
        /\ ~sm_is_train => (sm_pc = "raised" /\ sm_err = "ValueError" /\ sm_dX = <<>>)
        /\ sm_is_train =>
             /\ sm_pc = "done"
             /\ sm_err = "none"
             /\ AllZero(sm_dY) => (sm_dX # <<>> /\ AllZero(sm_dX))

\* With weights that are not all zero, the training closure returned zeros
\* for a zero gradient.
C8_Witness ==
    /\ sm_pc = "done"
    /\ ~sm_normalize
    /\ sm_is_train
    /\ ~AllZero(sm_W)
    /\ AllZero(sm_dY)
    /\ sm_dX # <<>>
    /\ AllZero(sm_dX)

\* ------------------------------------------------------- main's train loop
\* The literal of "if batch_count == 4".
BatchPerUpdate == 4

\* main has built the model and the data: n_epoch >= 1 epochs of n_batches
\* minibatches each.
InitTrain ==
    /\ n_epoch \in 1..MaxEpoch
    /\ n_batches \in 0..MaxBatches
    /\ tr_pc = "loop"
    /\ epoch = 0
    /\ batch_idx = 0
    /\ batch_count = 0
    /\ pending = 0
    /\ updates = 0
    /\ sched_steps = 0
    /\ BridgeIdle
    /\ SoftmaxIdle

\* for epoch in range(n_epoch): shuffle, batch_count = 0, start the batches.
EpochStart ==
    /\ tr_pc = "loop"
    /\ epoch < n_epoch
    /\ batch_count' = 0
    /\ batch_idx' = 0
    /\ tr_pc' = "batches"
    /\ UNCHANGED <<n_epoch, n_batches, epoch, pending, updates, sched_steps>>
    /\ UNCHANGED <<bridgeVars, softmaxVars>>

\* The next batch: forward, backprop(loss), batch_count += 1.
TrainBatch ==
    /\ tr_pc = "batches"
    /\ batch_idx < n_batches
    /\ batch_idx' = batch_idx + 1
    /\ batch_count' = batch_count + 1
    /\ pending' = pending + 1
    /\ tr_pc' = "check"
    /\ UNCHANGED <<n_epoch, n_batches, epoch, updates, sched_steps>>
    /\ UNCHANGED <<bridgeVars, softmaxVars>>

\* if batch_count == 4: model.finish_update(optimizer)
FinishUpdate ==
    /\ tr_pc = "check"
    /\ batch_count = BatchPerUpdate
    /\ updates' = updates + 1
    /\ pending' = 0
    /\ tr_pc' = "sched"
    /\ UNCHANGED <<n_epoch, n_batches, epoch, batch_idx, batch_count, sched_steps>>
    /\ UNCHANGED <<bridgeVars, softmaxVars>>

\* optimizer.step_schedules(); batch_count = 0
StepSchedules ==
    /\ tr_pc = "sched"
    /\ sched_steps' = sched_steps + 1
    /\ batch_count' = 0
    /\ tr_pc' = "batches"
    /\ UNCHANGED <<n_epoch, n_batches, epoch, batch_idx, pending, updates>>
    /\ UNCHANGED <<bridgeVars, softmaxVars>>

\* batch_count != 4: the if is skipped.
SkipUpdate ==
    /\ tr_pc = "check"
    /\ batch_count # BatchPerUpdate
    /\ tr_pc' = "batches"
    /\ UNCHANGED <<n_epoch, n_batches, epoch, batch_idx, batch_count, pending,
                   updates, sched_steps>>
    /\ UNCHANGED <<bridgeVars, softmaxVars>>

\* The batches are exhausted: evaluate_sequences, print, next epoch.
Evaluate ==
    /\ tr_pc = "batches"
    /\ batch_idx = n_batches
    /\ epoch' = epoch + 1
    /\ tr_pc' = "loop"
    /\ UNCHANGED <<n_epoch, n_batches, batch_idx, batch_count, pending, updates,
                   sched_steps>>
    /\ UNCHANGED <<bridgeVars, softmaxVars>>

\* range(n_epoch) is exhausted: main returns.
Return ==
    /\ tr_pc = "loop"
    /\ epoch = n_epoch
    /\ tr_pc' = "done"
    /\ UNCHANGED <<n_epoch, n_batches, epoch, batch_idx, batch_count, pending,
                   updates, sched_steps>>
    /\ UNCHANGED <<bridgeVars, softmaxVars>>

NextTrain ==
    EpochStart \/ TrainBatch \/ FinishUpdate \/ StepSchedules \/ SkipUpdate
        \/ Evaluate \/ Return

SpecTrain == InitTrain /\ [][NextTrain]_vars

\* The part of C10 about when updates happen: batch_count is in 0..3 between
\* iterations and in 1..4 after a batch, finish_update runs only at
\* batch_count = 4, and step_schedules has followed every finish_update.
C10_UpdateEveryFourth ==
    /\ (tr_pc = "batches") => (batch_count \in 0..(BatchPerUpdate - 1))
    /\ (tr_pc = "batches") => (sched_steps = updates)
    /\ (tr_pc = "check") => (batch_count \in 1..BatchPerUpdate)
    /\ (tr_pc = "sched") => (batch_count = BatchPerUpdate /\ updates = sched_steps + 1)

\* C10: finish_update and step_schedules run exactly after every 4th batch
\* since the last update or the epoch's start, and when main returns every
\* back-propagated batch has been followed by a finish_update.
C10_EveryBatchUpdated ==
    /\ C10_UpdateEveryFourth
    /\ (tr_pc = "done") => (pending = 0)

====
